---- MODULE Spec2Model ----
(***************************************************************************)
(* Model of two pieces of the repository:                                  *)
(*   - afterNextNavigation (packages/router/src/utils/navigations.ts):     *)
(*     a one-shot subscription on router.events built from                 *)
(*     filter / map / filter / take(1) / subscribe;                        *)
(*   - sanitizeServerContext and its use in _render                        *)
(*     (packages/platform-server/src/utils.ts).                            *)
(***************************************************************************)
EXTENDS Integers, Sequences, FiniteSets, TLC

\* ------------------------------------------------------------------------
\* Bounds of the model
\* ------------------------------------------------------------------------
NumRouters == 2

MaxWatchers == 2

MaxEvents == 2

MaxLen == 3

MaxCallbacks == 2

MaxUnstable == 1

Routers == 1..NumRouters

\* ------------------------------------------------------------------------
\* Router events
\* ------------------------------------------------------------------------
\* "NavigationStart" stands for every router event that is not one of the
\* four kinds the first filter lets through.
OutcomeKinds == {"NavigationEnd", "NavigationCancel", "NavigationError", "NavigationSkipped"}

EventKinds == OutcomeKinds \cup {"NavigationStart"}

NavigationCancellationCode == {"Redirect", "SupersededByNewNavigation", "NoDataFromResolver", "GuardRejected"}

RouterEvents ==
  {[kind |-> k, code |-> "None"] : k \in EventKinds \ {"NavigationCancel"}}
  \cup {[kind |-> "NavigationCancel", code |-> c] : c \in NavigationCancellationCode}

NavigationResult == {"COMPLETE", "FAILED", "REDIRECTING"}

\* What the action callback handed to afterNextNavigation does when it is
\* invoked: it returns, throws, or calls afterNextNavigation itself on the
\* same or on another router.  "pending" marks a callback not yet invoked.
ActionKinds == {"return", "throw", "registerSame", "registerOther"}

\* ------------------------------------------------------------------------
\* Strings of the server context: sequences of UTF-16 code units
\* ------------------------------------------------------------------------
\* sample code units: the ends of the ranges a-z, A-Z, 0-9, the hyphen, and
\* their neighbours  (space , . / : @ [ _ ` { and U+00E9)
Chars == {45, 48, 57, 65, 90, 97, 122, 32, 44, 46, 47, 58, 64, 91, 95, 96, 123, 233}

RECURSIVE StringsUpTo(_)
StringsUpTo(n) ==
  IF n = 0 THEN {<<>>}
  ELSE LET shorter == StringsUpTo(n - 1)
       IN shorter \cup {Append(s, c) : s \in {t \in shorter : Len(t) = n - 1}, c \in Chars}

Strings == StringsUpTo(MaxLen)

VARIABLES
  events,        \* events[r]: the events router r has emitted so far, in order
  routerClosed,  \* routerClosed[r]: the events stream of router r has completed
  watchers,      \* one record per afterNextNavigation call, in call order
  hostErrors,    \* errors that left a subscriber callback to the reactive runtime
  renderPc,      \* position of _render
  injected,      \* what the injector holds for SERVER_CONTEXT
  serverContext, \* the const serverContext of _render
  hostAttr,      \* the ng-server-context attribute of the host elements
  appId,         \* what the injector holds for APP_ID: "null", "empty" or "set"
  hydration,     \* IS_HYDRATION_FEATURE_ENABLED
  callbacks,     \* BEFORE_APP_SERIALIZED: <<"null">> or <<"list", behaviours>>
  unstable,      \* number of false values isStable has emitted
  asyncPromises, \* the callbacks (by position) whose result was a promise
  pending,       \* those of them that have not settled yet
  warnings,      \* number of console.warn calls
  trace,         \* the calls _render has made so far, in order
  outcome        \* how the promise returned by _render has settled: "none",
                 \* "resolved", or "rejected: " and the error

navVars == <<events, routerClosed, watchers, hostErrors>>

flowVars == <<appId, hydration, callbacks, unstable, asyncPromises, pending, warnings, trace, outcome>>

renderVars == <<renderPc, injected, serverContext, hostAttr, flowVars>>

vars == <<events, routerClosed, watchers, hostErrors, renderPc, injected, serverContext, hostAttr,
          appId, hydration, callbacks, unstable, asyncPromises, pending, warnings, trace, outcome>>

\* ------------------------------------------------------------------------
\* The pipeline of afterNextNavigation
\* ------------------------------------------------------------------------
\* the first filter without the instanceof NavigationSkipped test
IsNavigationOutcomeNoSkipped(e) ==
  \/ e.kind = "NavigationEnd"
  \/ e.kind = "NavigationCancel"
  \/ e.kind = "NavigationError"

\* no first filter at all: every event reaches map
IsNavigationOutcomeAny(e) == TRUE

\* first filter: only the four outcome kinds pass
IsNavigationOutcome(e) ==
  \/ e.kind = "NavigationEnd"
  \/ e.kind = "NavigationCancel"
  \/ e.kind = "NavigationError"
  \/ e.kind = "NavigationSkipped"

\* map without the SupersededByNewNavigation test
ClassifyRedirectOnly(e) ==
  IF e.kind = "NavigationEnd" \/ e.kind = "NavigationSkipped"
  THEN "COMPLETE"
  ELSE LET redirecting ==
             IF e.kind = "NavigationCancel" THEN e.code = "Redirect" ELSE FALSE
       IN IF redirecting THEN "REDIRECTING" ELSE "FAILED"

\* map with every NavigationCancel taken as a failure
ClassifyCancelFails(e) ==
  IF e.kind = "NavigationEnd" \/ e.kind = "NavigationSkipped" THEN "COMPLETE" ELSE "FAILED"

\* map: event -> NavigationResult
Classify(e) ==
  IF e.kind = "NavigationEnd" \/ e.kind = "NavigationSkipped"
  THEN "COMPLETE"
  ELSE LET redirecting ==
             IF e.kind = "NavigationCancel"
             THEN (e.code = "Redirect" \/ e.code = "SupersededByNewNavigation")
             ELSE FALSE
       IN IF redirecting THEN "REDIRECTING" ELSE "FAILED"

\* a second filter that lets every result through
IsTerminalResultAll(result) == TRUE

\* second filter: REDIRECTING results are dropped
IsTerminalResult(result) == result # "REDIRECTING"

\* take(1): the count of values let through
TakeCount == 1

\* action(): how the call ends
InvokeAction(a) == IF a = "throw" THEN "thrown" ELSE "returned"

\* a subscriber that wraps action() in try/catch and swallows the error
SubscriberCatching(w, idx, a) ==
  [w EXCEPT !.calls = @ + 1, !.firedAt = idx, !.action = a, !.escaped = FALSE]

\* the subscriber  () => { action(); }  : no try/catch, so a thrown error
\* leaves the callback
Subscriber(w, idx, a) ==
  LET out == InvokeAction(a)
  IN [w EXCEPT !.calls = @ + 1, !.firedAt = idx, !.action = a,
               !.escaped = (out = "thrown")]

\* no take(1): every terminal result reaches the subscriber
TakeAll(w, idx, a) == Subscriber([w EXCEPT !.seen = @ + 1], idx, a)

\* a take(1) that stops passing values on but never completes the subscription
TakeNoComplete(w, idx, a) ==
  LET w1 == [w EXCEPT !.seen = @ + 1]
  IN IF w1.seen <= 1 THEN Subscriber(w1, idx, a) ELSE w1

\* take(1) receiving a value: counts it, passes it on while the count is
\* within TakeCount, and completes the subscription when the count is reached
Take(w, idx, a) ==
  LET seen == w.seen + 1
      w1 == [w EXCEPT !.seen = seen]
  IN IF seen <= TakeCount
     THEN LET w2 == Subscriber(w1, idx, a)
          IN IF TakeCount <= seen THEN [w2 EXCEPT !.closed = TRUE] ELSE w2
     ELSE w1

\* one event delivered to one watcher: filter, map, filter, take, subscribe
OnNext(w, e, idx, a) ==
  IF w.closed THEN w
  ELSE LET w1 == [w EXCEPT !.delivered = @ + 1]
       IN IF ~IsNavigationOutcome(e) THEN w1
          ELSE LET result == Classify(e)
                   w2 == [w1 EXCEPT !.results = Append(@, result)]
               IN IF ~IsTerminalResult(result) THEN w2
                  ELSE Take(w2, idx, a)

\* the record of a fresh afterNextNavigation(router, action) call; subscribing
\* to a stream that has already completed completes the subscription at once
NewWatcher(r, parent, regAt, srcClosed) ==
  [router |-> r, action |-> "pending", parent |-> parent, regAt |-> regAt,
   delivered |-> 0, results |-> <<>>, seen |-> 0, calls |-> 0, firedAt |-> 0,
   escaped |-> FALSE, closed |-> srcClosed]

OtherRouter(r) == (r % NumRouters) + 1

RegisterTarget(a, r) == IF a = "registerSame" THEN r ELSE OtherRouter(r)

\* a delivery in which the one-shot state is shared: once one watcher has
\* fired for the event, the watchers after it are not served
RECURSIVE DeliverAllShared(_, _, _, _, _, _, _, _)
DeliverAllShared(ws, i, n, r, e, lens, beh, rClosed) ==
  IF i > n THEN ws
  ELSE LET w == ws[i]
           w2 == IF w.router = r /\ ~w.closed THEN OnNext(w, e, lens[r], beh[i]) ELSE w
           fired == w2.calls > w.calls
           ws2 == [ws EXCEPT ![i] = w2]
           ws3 == IF fired /\ beh[i] \in {"registerSame", "registerOther"}
                  THEN LET t == RegisterTarget(beh[i], r)
                       IN Append(ws2, NewWatcher(t, i, lens[t], rClosed[t]))
                  ELSE ws2
       IN IF fired THEN ws3
          ELSE DeliverAllShared(ws3, i + 1, n, r, e, lens, beh, rClosed)

\* router.events.next(e): the event goes, in subscription order, to the
\* watchers subscribed when the emission started (i..n); a watcher registered
\* from inside a callback is appended and does not see the current event
RECURSIVE DeliverAll(_, _, _, _, _, _, _, _)
DeliverAll(ws, i, n, r, e, lens, beh, rClosed) ==
  IF i > n THEN ws
  ELSE LET w == ws[i]
           w2 == IF w.router = r /\ ~w.closed THEN OnNext(w, e, lens[r], beh[i]) ELSE w
           fired == w2.calls > w.calls
           ws2 == [ws EXCEPT ![i] = w2]
           ws3 == IF fired /\ beh[i] \in {"registerSame", "registerOther"}
                  THEN LET t == RegisterTarget(beh[i], r)
                       IN Append(ws2, NewWatcher(t, i, lens[t], rClosed[t]))
                  ELSE ws2
       IN DeliverAll(ws3, i + 1, n, r, e, lens, beh, rClosed)

\* errors that left subscriber callbacks while going from ws to ws2
NewlyEscaped(ws, ws2) ==
  Cardinality({i \in 1..Len(ws) : ws2[i].escaped /\ ~ws[i].escaped})

\* ------------------------------------------------------------------------
\* Bookkeeping of the bounds
\* ------------------------------------------------------------------------
RECURSIVE SumLens(_, _)
SumLens(ev, S) ==
  IF S = {} THEN 0
  ELSE LET r == CHOOSE x \in S : TRUE IN Len(ev[r]) + SumLens(ev, S \ {r})

TotalEvents == SumLens(events, Routers)

\* ------------------------------------------------------------------------
\* Actions
\* ------------------------------------------------------------------------
NavInit ==
  /\ events = [r \in Routers |-> <<>>]
  /\ routerClosed = [r \in Routers |-> FALSE]
  /\ watchers = <<>>
  /\ hostErrors = 0

\* _render has not been called
FlowIdle ==
  /\ appId = "set"
  /\ hydration = FALSE
  /\ callbacks = <<"null">>
  /\ unstable = 0
  /\ asyncPromises = <<>>
  /\ pending = {}
  /\ warnings = 0
  /\ trace = <<>>
  /\ outcome = "none"

Init ==
  /\ NavInit
  /\ renderPc = "idle"
  /\ injected = [provided |-> FALSE, value |-> <<>>]
  /\ serverContext = <<>>
  /\ hostAttr = <<>>
  /\ FlowIdle

\* watchers subscribed to the events of router r
Subscribed(ws, r) == {i \in 1..Len(ws) : ws[i].router = r /\ ~ws[i].closed}

\* afterNextNavigation(router, action), called from outside any callback
Register(r) ==
  /\ Len(watchers) < MaxWatchers
  /\ watchers' = Append(watchers, NewWatcher(r, 0, Len(events[r]), routerClosed[r]))
  /\ UNCHANGED <<events, routerClosed, hostErrors, renderVars>>

\* router r emits e; every subscribed watcher processes it to completion;
\* beh[i] is what the callback of watcher i does if this event invokes it
Emit(r, e, beh) ==
  /\ ~routerClosed[r]
  /\ TotalEvents < MaxEvents
  /\ events' = [events EXCEPT ![r] = Append(@, e)]
  /\ LET lens == [x \in Routers |-> Len(events'[x])]
         ws == DeliverAll(watchers, 1, Len(watchers), r, e, lens, beh, routerClosed)
     IN /\ Len(ws) <= MaxWatchers
        /\ watchers' = ws
        /\ hostErrors' = hostErrors + NewlyEscaped(watchers, ws)
  /\ UNCHANGED <<routerClosed, renderVars>>

\* the events stream of router r completes: every subscription on it ends,
\* no callback runs
Close(r) ==
  /\ ~routerClosed[r]
  /\ routerClosed' = [routerClosed EXCEPT ![r] = TRUE]
  /\ watchers' = [i \in 1..Len(watchers) |->
                    IF watchers[i].router = r
                    THEN [watchers[i] EXCEPT !.closed = TRUE]
                    ELSE watchers[i]]
  /\ UNCHANGED <<events, hostErrors, renderVars>>

\* One router, every kind of event: the callbacks return, throw, or register
\* another watcher on the same router.
SameRouterActions == {"return", "throw", "registerSame"}

Next ==
  \/ Register(1)
  \/ \E e \in RouterEvents :
       \E beh \in [Subscribed(watchers, 1) -> SameRouterActions] : Emit(1, e, beh)
  \/ Close(1)

Spec == Init /\ [][Next]_vars

\* Several routers: the callbacks may also register on another router.  One
\* event stands for each way the pipeline treats an event (COMPLETE, FAILED,
\* REDIRECTING, not let through).  Router instances are interchangeable, so
\* they are taken into use in the order of their numbers; a stream completes
\* while it has subscribers.
SampleEvents ==
  { [kind |-> "NavigationEnd", code |-> "None"],
    [kind |-> "NavigationError", code |-> "None"],
    [kind |-> "NavigationCancel", code |-> "Redirect"],
    [kind |-> "NavigationStart", code |-> "None"] }

InUse(r) ==
  \/ events[r] # <<>>
  \/ routerClosed[r]
  \/ \E i \in 1..Len(watchers) : watchers[i].router = r

Available == {r \in Routers : r = 1 \/ InUse(r - 1)}

NextRouters ==
  \/ \E r \in Available : Register(r)
  \/ \E r \in Available, e \in SampleEvents :
       \E beh \in [Subscribed(watchers, r) -> ActionKinds] : Emit(r, e, beh)
  \/ \E r \in Available : Subscribed(watchers, r) # {} /\ Close(r)

SpecRouters == Init /\ [][NextRouters]_vars

\* ------------------------------------------------------------------------
\* Re-entrant emission: a callback makes the router emit while the event
\* that invoked it is still being delivered
\* ------------------------------------------------------------------------
\* the operators above take(1): the watcher after them, and whether a value
\* reaches take(1)
Upstream(w, e) ==
  IF w.closed THEN [w |-> w, passes |-> FALSE]
  ELSE LET w1 == [w EXCEPT !.delivered = @ + 1]
       IN IF ~IsNavigationOutcome(e) THEN [w |-> w1, passes |-> FALSE]
          ELSE LET result == Classify(e)
                   w2 == [w1 EXCEPT !.results = Append(@, result)]
               IN [w |-> w2, passes |-> IsTerminalResult(result)]

\* a take(1) that counts the value only after the subscriber has returned
TakeBeforeUncounted(w) == w

\* take(1) when it hands a value to the subscriber: the value is already counted
TakeBefore(w) == [w EXCEPT !.seen = @ + 1]

\* take(1) once the subscriber has returned: complete when the count is reached
TakeAfter(w) == IF TakeCount <= w.seen THEN [w EXCEPT !.closed = TRUE] ELSE w

\* router.events.next(e) where the callback of watcher em, invoked for e,
\* calls router.events.next(e2) before it returns: e2 goes to every watcher
\* subscribed at that moment, em included, then em's take(1) completes and
\* the delivery of e goes on with the watchers after em
RECURSIVE DeliverReentrant(_, _, _, _, _, _, _, _, _, _, _)
DeliverReentrant(ws, i, n, r, e, e2, lens, em, beh, beh2, rClosed) ==
  IF i > n THEN ws
  ELSE IF i = em
       THEN LET mid == Subscriber(TakeBefore(Upstream(ws[i], e).w), lens[r], "emit")
                wsMid == [ws EXCEPT ![i] = mid]
                nested == DeliverAll(wsMid, 1, Len(wsMid), r, e2,
                                     [lens EXCEPT ![r] = @ + 1], beh2, rClosed)
                after == [nested EXCEPT ![i] = TakeAfter(@)]
            IN DeliverReentrant(after, i + 1, n, r, e, e2, lens, em, beh, beh2, rClosed)
       ELSE LET w == ws[i]
                w2 == IF w.router = r /\ ~w.closed THEN OnNext(w, e, lens[r], beh[i]) ELSE w
            IN DeliverReentrant([ws EXCEPT ![i] = w2], i + 1, n, r, e, e2, lens, em, beh, beh2, rClosed)

\* router r emits e, and the callback of watcher em emits e2 from inside
EmitReentrant(r, e, e2, em, beh, b2) ==
  /\ ~routerClosed[r]
  /\ TotalEvents + 1 < MaxEvents
  /\ em \in Subscribed(watchers, r)
  /\ Upstream(watchers[em], e).passes
  /\ watchers[em].seen < TakeCount
  /\ events' = [events EXCEPT ![r] = Append(Append(@, e), e2)]
  /\ LET lens == [x \in Routers |-> Len(events[x]) + (IF x = r THEN 1 ELSE 0)]
         ws == DeliverReentrant(watchers, 1, Len(watchers), r, e, e2, lens, em, beh,
                                [j \in 1..Len(watchers) |-> b2], routerClosed)
     IN /\ watchers' = ws
        /\ hostErrors' = hostErrors + NewlyEscaped(watchers, ws)
  /\ UNCHANGED <<routerClosed, renderVars>>

PlainActions == {"return", "throw"}

NextReentrant ==
  \/ Register(1)
  \/ \E e \in SampleEvents :
       \E beh \in [Subscribed(watchers, 1) -> PlainActions] : Emit(1, e, beh)
  \/ \E e \in SampleEvents, e2 \in SampleEvents, em \in Subscribed(watchers, 1), b2 \in PlainActions :
       \E beh \in [Subscribed(watchers, 1) -> PlainActions] : EmitReentrant(1, e, e2, em, beh, b2)
  \/ Close(1)

SpecReentrant == Init /\ [][NextReentrant]_vars

\* ------------------------------------------------------------------------
\* What the specification says of an event, stated independently of the
\* pipeline above
\* ------------------------------------------------------------------------
SpecOutcome(e) ==
  CASE e.kind \in {"NavigationEnd", "NavigationSkipped"} -> "COMPLETE"
    [] e.kind = "NavigationCancel" /\ e.code \in {"Redirect", "SupersededByNewNavigation"} -> "REDIRECTING"
    [] e.kind = "NavigationCancel" /\ e.code \notin {"Redirect", "SupersededByNewNavigation"} -> "FAILED"
    [] e.kind = "NavigationError" -> "FAILED"
    [] OTHER -> "IGNORED"

SpecTerminal(e) == SpecOutcome(e) \in {"COMPLETE", "FAILED"}

WatcherIds == 1..Len(watchers)

\* the events the router of watcher i has emitted since i was registered
EmittedSince(i) ==
  SubSeq(events[watchers[i].router], watchers[i].regAt + 1, Len(events[watchers[i].router]))

\* positions, in the router's emission order, of the terminal events emitted
\* since watcher i was registered
TerminalPositions(i) ==
  {k \in (watchers[i].regAt + 1)..Len(events[watchers[i].router]) :
     SpecTerminal(events[watchers[i].router][k])}

\* the position of the first of them, 0 when there is none
FirstTerminal(i) ==
  IF TerminalPositions(i) = {} THEN 0
  ELSE CHOOSE k \in TerminalPositions(i) : \A j \in TerminalPositions(i) : k <= j

\* router r emits one event in this step
Emits(r) == Len(events'[r]) = Len(events[r]) + 1

Emitted(r) == events'[r][Len(events'[r])]

\* ------------------------------------------------------------------------
\* C1: for one registration and any sequence of router events the callback
\* is invoked at most once, and exactly once if the sequence holds at least
\* one event classified Complete or Failed.
\* ------------------------------------------------------------------------
C1_AtMostOnceAndOnceIfTerminal ==
  \A i \in WatcherIds :
    /\ watchers[i].calls <= 1
    /\ (TerminalPositions(i) # {} => watchers[i].calls = 1)

\* a watcher whose router emitted two terminal events after the registration
C1_Witness ==
  \E i \in WatcherIds :
    /\ Cardinality(TerminalPositions(i)) >= 2
    /\ watchers[i].calls = 1

\* ------------------------------------------------------------------------
\* C2: the classification is a total function of kind and cancellation code:
\* NavigationEnd and NavigationSkipped give COMPLETE, NavigationCancel with
\* Redirect or SupersededByNewNavigation gives REDIRECTING, NavigationCancel
\* with another code and NavigationError give FAILED; each of the four kinds
\* gets exactly one of the three outcomes.
\* ------------------------------------------------------------------------
\* the events that went into the pipeline of watcher i
DeliveredTo(i) ==
  SubSeq(events[watchers[i].router], watchers[i].regAt + 1,
         watchers[i].regAt + watchers[i].delivered)

ExpectedResults(i) ==
  LET passed == SelectSeq(DeliveredTo(i), LAMBDA e : SpecOutcome(e) # "IGNORED")
  IN [k \in 1..Len(passed) |-> SpecOutcome(passed[k])]

C2_ClassificationTable ==
  /\ \A e \in RouterEvents :
       e.kind \in OutcomeKinds =>
         /\ Classify(e) \in NavigationResult
         /\ Classify(e) = SpecOutcome(e)
  /\ \A i \in WatcherIds : watchers[i].results = ExpectedResults(i)

\* a watcher that classified a superseding cancellation and then a cancellation
\* with another code
C2_Witness ==
  \E i \in WatcherIds :
    /\ watchers[i].results = <<"REDIRECTING", "FAILED">>
    /\ DeliveredTo(i)[1] = [kind |-> "NavigationCancel", code |-> "SupersededByNewNavigation"]
    /\ DeliveredTo(i)[2].kind = "NavigationCancel"

\* ------------------------------------------------------------------------
\* C3: an event classified REDIRECTING never invokes the callback and never
\* ends the subscription; after any number of them the watcher is still
\* subscribed with no invocation, and the next terminal event fires it.
\* ------------------------------------------------------------------------
C3_StillWaiting ==
  \A i \in WatcherIds :
    /\ ( /\ ~routerClosed[watchers[i].router]
         /\ \A k \in 1..Len(EmittedSince(i)) : SpecOutcome(EmittedSince(i)[k]) = "REDIRECTING" )
       => (~watchers[i].closed /\ watchers[i].calls = 0 /\ watchers[i].seen = 0)
    /\ ( /\ FirstTerminal(i) # 0
         /\ \A k \in (watchers[i].regAt + 1)..(FirstTerminal(i) - 1) :
              SpecOutcome(events[watchers[i].router][k]) = "REDIRECTING" )
       => (watchers[i].calls = 1 /\ watchers[i].firedAt = FirstTerminal(i))

C3_RedirectingStep ==
  \A i \in WatcherIds :
    ( /\ Emits(watchers[i].router)
      /\ SpecOutcome(Emitted(watchers[i].router)) = "REDIRECTING" )
    => /\ watchers'[i].calls = watchers[i].calls
       /\ watchers'[i].closed = watchers[i].closed
       /\ watchers'[i].seen = watchers[i].seen

C3_RedirectingNeverFires == [](C3_StillWaiting) /\ [][C3_RedirectingStep]_vars

\* a redirecting cancellation, then a terminal event that fired the callback
C3_Witness ==
  \E i \in WatcherIds :
    /\ Len(EmittedSince(i)) = 2
    /\ SpecOutcome(EmittedSince(i)[1]) = "REDIRECTING"
    /\ SpecTerminal(EmittedSince(i)[2])
    /\ watchers[i].calls = 1
    /\ watchers[i].firedAt = watchers[i].regAt + 2

\* ------------------------------------------------------------------------
\* C4: the callback is triggered by the first event, in emission order, that
\* is classified COMPLETE or FAILED, during the delivery of that event; no
\* later qualifying event triggers it; a lone NavigationSkipped fires it.
\* ------------------------------------------------------------------------
C4_FiredByFirst ==
  \A i \in WatcherIds :
    /\ watchers[i].calls >= 1 =>
         /\ watchers[i].firedAt = FirstTerminal(i)
         /\ watchers[i].delivered = watchers[i].firedAt - watchers[i].regAt
    /\ ( /\ watchers[i].regAt = 0
         /\ events[watchers[i].router] = <<[kind |-> "NavigationSkipped", code |-> "None"]>> )
       => (watchers[i].calls = 1 /\ watchers[i].firedAt = 1)

C4_FiresDuringDelivery ==
  \A i \in WatcherIds :
    watchers'[i].calls # watchers[i].calls =>
      /\ Emits(watchers[i].router)
      /\ SpecTerminal(Emitted(watchers[i].router))
      /\ watchers'[i].firedAt = Len(events'[watchers[i].router])
      /\ TerminalPositions(i) = {}

C4_FirstTerminalWins == [](C4_FiredByFirst) /\ [][C4_FiresDuringDelivery]_vars

\* NavigationSkipped then NavigationError: fired by the first
C4_Witness ==
  \E i \in WatcherIds :
    /\ watchers[i].regAt = 0
    /\ events[watchers[i].router] = << [kind |-> "NavigationSkipped", code |-> "None"],
                                       [kind |-> "NavigationError", code |-> "None"] >>
    /\ watchers[i].calls = 1
    /\ watchers[i].firedAt = 1

\* ------------------------------------------------------------------------
\* C5: after the callback has fired the watcher is unsubscribed: later events
\* are neither classified nor have any effect on the registration; the
\* registration also ends when the source closes.
\* ------------------------------------------------------------------------
C5_Ended ==
  \A i \in WatcherIds :
    /\ watchers[i].calls >= 1 => watchers[i].closed
    /\ routerClosed[watchers[i].router] => watchers[i].closed

C5_NoEffectAfterEnd ==
  \A i \in WatcherIds : watchers[i].closed => watchers'[i] = watchers[i]

C5_UnsubscribedAfterFiring == [](C5_Ended) /\ [][C5_NoEffectAfterEnd]_vars

\* a watcher that fired, and whose router emitted another event afterwards
C5_Witness ==
  \E i \in WatcherIds :
    /\ watchers[i].calls = 1
    /\ watchers[i].closed
    /\ Len(events[watchers[i].router]) > watchers[i].firedAt
    /\ Len(watchers[i].results) < Len(SelectSeq(EmittedSince(i), LAMBDA e : e.kind \in OutcomeKinds))

\* ------------------------------------------------------------------------
\* C6: if the source closes after only REDIRECTING-classified and
\* unrecognised events (or none), the callback is never invoked, the watcher
\* is disposed, and no error is raised.
\* ------------------------------------------------------------------------
C6_SilentAtClose ==
  \A i \in WatcherIds :
    (routerClosed[watchers[i].router] /\ TerminalPositions(i) = {})
    => /\ watchers[i].calls = 0
       /\ watchers[i].closed
       /\ ~watchers[i].escaped

C6_CloseStep ==
  \A r \in Routers :
    (routerClosed'[r] /\ ~routerClosed[r])
    => /\ hostErrors' = hostErrors
       /\ \A i \in WatcherIds : watchers'[i].calls = watchers[i].calls

C6_CloseWithoutTerminal == [](C6_SilentAtClose) /\ [][C6_CloseStep]_vars

\* the source closed after an unrecognised event and a redirecting one
C6_Witness ==
  \E i \in WatcherIds :
    /\ routerClosed[watchers[i].router]
    /\ Len(EmittedSince(i)) = 2
    /\ \E k \in 1..2 : SpecOutcome(EmittedSince(i)[k]) = "REDIRECTING"
    /\ \E k \in 1..2 : SpecOutcome(EmittedSince(i)[k]) = "IGNORED"
    /\ watchers[i].delivered = 2
    /\ watchers[i].calls = 0
    /\ watchers[i].closed
    /\ hostErrors = 0

\* ------------------------------------------------------------------------
\* C7: an event that is none of NavigationEnd, NavigationSkipped,
\* NavigationCancel, NavigationError is dropped before classification: the
\* watcher stays subscribed with the same callback count, and which later
\* event fires the callback is not affected.
\* ------------------------------------------------------------------------
\* the first terminal event among those of the four kinds only
FirstTerminalOfKnown(i) ==
  LET r == watchers[i].router
      known == {k \in (watchers[i].regAt + 1)..Len(events[r]) : events[r][k].kind \in OutcomeKinds}
      term == {k \in known : SpecTerminal(events[r][k])}
  IN IF term = {} THEN 0 ELSE CHOOSE k \in term : \A j \in term : k <= j

C7_FiringIgnoresUnknown ==
  \A i \in WatcherIds :
    /\ watchers[i].firedAt = FirstTerminalOfKnown(i)
    /\ Len(watchers[i].results) =
         Len(SelectSeq(DeliveredTo(i), LAMBDA e : e.kind \in OutcomeKinds))

C7_UnknownStep ==
  \A r \in Routers :
    (Emits(r) /\ Emitted(r).kind \notin OutcomeKinds)
    => /\ Len(watchers') = Len(watchers)
       /\ hostErrors' = hostErrors
       /\ \A i \in WatcherIds :
            /\ watchers'[i].results = watchers[i].results
            /\ watchers'[i].seen = watchers[i].seen
            /\ watchers'[i].calls = watchers[i].calls
            /\ watchers'[i].closed = watchers[i].closed
            /\ watchers'[i].firedAt = watchers[i].firedAt

C7_UnknownEventsDropped == [](C7_FiringIgnoresUnknown) /\ [][C7_UnknownStep]_vars

\* an unrecognised event, then NavigationEnd, which fired the callback
C7_Witness ==
  \E i \in WatcherIds :
    /\ Len(EmittedSince(i)) = 2
    /\ EmittedSince(i)[1].kind = "NavigationStart"
    /\ EmittedSince(i)[2].kind = "NavigationEnd"
    /\ watchers[i].results = <<"COMPLETE">>
    /\ watchers[i].calls = 1
    /\ watchers[i].firedAt = watchers[i].regAt + 2

\* ------------------------------------------------------------------------
\* C8: registrations are independent: for two registrations on the same or
\* on different sources, one possibly created inside the other's callback,
\* each fires exactly once at the first terminal event delivered to it after
\* its own registration, and one's firing or unsubscription never changes
\* whether or when the other fires.
\* ------------------------------------------------------------------------
C8_OwnHistoryOnly ==
  \A i \in WatcherIds :
    /\ watchers[i].calls = (IF FirstTerminal(i) # 0 THEN 1 ELSE 0)
    /\ watchers[i].firedAt = FirstTerminal(i)
    /\ watchers[i].closed = (FirstTerminal(i) # 0 \/ routerClosed[watchers[i].router])
    /\ watchers[i].parent # 0 =>
         /\ watchers[i].parent < i
         /\ watchers[watchers[i].parent].calls = 1
         /\ (watchers[i].router = watchers[watchers[i].parent].router
               => watchers[i].regAt = watchers[watchers[i].parent].firedAt)

C8_OthersUntouched ==
  \A i \in WatcherIds :
    ( /\ events'[watchers[i].router] = events[watchers[i].router]
      /\ routerClosed'[watchers[i].router] = routerClosed[watchers[i].router] )
    => watchers'[i] = watchers[i]

C8_Independent == [](C8_OwnHistoryOnly) /\ [][C8_OthersUntouched]_vars

\* a watcher registered on the same router from inside another's callback:
\* the outer one fired on one event, the inner one on the next
C8_Witness ==
  \E i, j \in WatcherIds :
    /\ watchers[j].parent = i
    /\ watchers[i].router = watchers[j].router
    /\ watchers[i].calls = 1
    /\ watchers[j].calls = 1
    /\ watchers[j].firedAt = watchers[i].firedAt + 1

\* ------------------------------------------------------------------------
\* C9: an error raised inside the action callback is not intercepted by the
\* watcher: it leaves the watcher to the reactive runtime, and the callback
\* is not invoked again for any later event.
\* ------------------------------------------------------------------------
C9_ErrorEscapes ==
  /\ \A i \in WatcherIds :
       watchers[i].action = "throw" =>
         (watchers[i].escaped /\ watchers[i].calls = 1 /\ watchers[i].closed)
  /\ hostErrors = Cardinality({i \in WatcherIds : watchers[i].action = "throw"})

C9_NoCallAfterError ==
  \A i \in WatcherIds :
    watchers[i].action = "throw" => watchers'[i].calls = watchers[i].calls

C9_CallbackErrorNotSuppressed == [](C9_ErrorEscapes) /\ [][C9_NoCallAfterError]_vars

\* a callback threw, and its router emitted a terminal event afterwards
C9_Witness ==
  \E i \in WatcherIds :
    /\ watchers[i].action = "throw"
    /\ hostErrors >= 1
    /\ Cardinality(TerminalPositions(i)) = 2
    /\ watchers[i].calls = 1

\* ------------------------------------------------------------------------
\* The server context in _render
\* ------------------------------------------------------------------------
DEFAULT_SERVER_CONTEXT == <<111, 116, 104, 101, 114>>   \* 'other'

\* the character class without the escaped hyphen
InClassNoHyphen(c) ==
  \/ (97 <= c /\ c <= 122)
  \/ (65 <= c /\ c <= 90)
  \/ (48 <= c /\ c <= 57)

\* the character class  a-zA-Z0-9\-  of the regular expression
InClass(c) ==
  \/ (97 <= c /\ c <= 122)
  \/ (65 <= c /\ c <= 90)
  \/ (48 <= c /\ c <= 57)
  \/ c = 45

\* serverContext.replace(/[^a-zA-Z0-9\-]/g, ''), then the default when empty
sanitizeServerContext(str) ==
  LET context == SelectSeq(str, InClass)
  IN IF Len(context) > 0 THEN context ELSE DEFAULT_SERVER_CONTEXT

\* environmentInjector.get(SERVER_CONTEXT, DEFAULT_SERVER_CONTEXT)
GetServerContext(inj) == IF inj.provided THEN inj.value ELSE DEFAULT_SERVER_CONTEXT

RenderInit ==
  /\ NavInit
  /\ renderPc = "bootstrapped"
  /\ injected \in {[provided |-> FALSE, value |-> <<>>]}
                  \cup {[provided |-> TRUE, value |-> s] : s \in Strings}
  /\ serverContext = <<>>
  /\ hostAttr = <<>>
  /\ FlowIdle

\* const serverContext = sanitizeServerContext(environmentInjector.get(...))
ReadServerContext ==
  /\ renderPc = "bootstrapped"
  /\ serverContext' = sanitizeServerContext(GetServerContext(injected))
  /\ renderPc' = "contextRead"
  /\ UNCHANGED <<navVars, injected, hostAttr, flowVars>>

\* appendServerContextInfo(serverContext, applicationRef), once stable
appendServerContextInfo ==
  /\ renderPc = "contextRead"
  /\ hostAttr' = serverContext
  /\ renderPc' = "annotated"
  /\ UNCHANGED <<navVars, injected, serverContext, flowVars>>

RenderNext ==
  \/ ReadServerContext
  \/ appendServerContextInfo

SpecRender == RenderInit /\ [][RenderNext]_vars

\* ------------------------------------------------------------------------
\* _render: bootstrap, wait for stability, BEFORE_APP_SERIALIZED callbacks,
\* serialisation
\* ------------------------------------------------------------------------
\* what a BEFORE_APP_SERIALIZED callback does when called: returns no promise,
\* throws, or returns a promise that is later fulfilled or rejected
CallbackKinds == {"void", "throw", "resolves", "rejects"}

RECURSIVE ListsUpTo(_)
ListsUpTo(n) ==
  IF n = 0 THEN {<<>>}
  ELSE LET shorter == ListsUpTo(n - 1)
       IN shorter \cup {Append(l, c) : l \in {t \in shorter : Len(t) = n - 1}, c \in CallbackKinds}

Op(name, k) == [op |-> name, i |-> k]

\* a test that lets the empty string through
HasNoTransitionIdNullOnly(id) == id = "null"

\* if (!transitionId): null and the empty string are both falsy
HasNoTransitionId(id) == id = "null" \/ id = "empty"

\* if (callbacks) { for (const callback of callbacks) ... }
CallbackList(cbs) == IF cbs[1] = "null" THEN <<>> ELSE cbs[2]

\* isPromise(callbackResult)
IsPromiseResult(kind) == kind = "resolves" \/ kind = "rejects"

\* the loop without its try/catch: the first throwing callback ends it
RECURSIVE RunCallbacksNoCatch(_, _, _)
RunCallbacksNoCatch(cbs, k, acc) ==
  IF k > Len(cbs) THEN acc
  ELSE LET called == [acc EXCEPT !.trace = Append(@, Op("callback", k))]
       IN IF cbs[k] = "throw"
          THEN [called EXCEPT !.thrown = TRUE]
          ELSE IF IsPromiseResult(cbs[k])
               THEN RunCallbacksNoCatch(cbs, k + 1, [called EXCEPT !.promises = Append(@, k)])
               ELSE RunCallbacksNoCatch(cbs, k + 1, called)

\* the loop over the callbacks from position k on: each is called inside
\* try/catch; a promise result is pushed on asyncPromises, an exception is
\* logged and ignored
RECURSIVE RunCallbacks(_, _, _)
RunCallbacks(cbs, k, acc) ==
  IF k > Len(cbs) THEN acc
  ELSE LET called == [acc EXCEPT !.trace = Append(@, Op("callback", k))]
       IN IF cbs[k] = "throw"
          THEN RunCallbacks(cbs, k + 1, [called EXCEPT !.warnings = @ + 1])
          ELSE IF IsPromiseResult(cbs[k])
               THEN RunCallbacks(cbs, k + 1, [called EXCEPT !.promises = Append(@, k)])
               ELSE RunCallbacks(cbs, k + 1, called)

\* const complete = () => { output = renderToString(); platform.destroy(); ... }
Complete(tr) == tr \o <<Op("renderToString", 0), Op("destroy", 0)>>

\* a test that never waits for the promises
NothingToAwaitAlways(promises) == TRUE

\* if (asyncPromises.length === 0) return complete();
NothingToAwait(promises) == Len(promises) = 0

\* asyncPromise.catch(e => console.warn(...)): fulfilled whatever the promise does
SettledAs(kind) == "fulfilled"

RangeSet(seq) == {seq[k] : k \in 1..Len(seq)}

FlowInit ==
  /\ NavInit
  /\ renderPc = "bootstrapping"
  /\ injected = [provided |-> FALSE, value |-> <<>>]
  /\ serverContext = <<>>
  /\ hostAttr = <<>>
  /\ appId \in {"null", "empty", "set"}
  /\ hydration \in BOOLEAN
  /\ callbacks \in {<<"null">>} \cup {<<"list", l>> : l \in ListsUpTo(MaxCallbacks)}
  /\ unstable = 0
  /\ asyncPromises = <<>>
  /\ pending = {}
  /\ warnings = 0
  /\ trace = <<>>
  /\ outcome = "none"

\* bootstrapPromise rejects: the promise of _render rejects with it
BootstrapRejects ==
  /\ renderPc = "bootstrapping"
  /\ renderPc' = "done"
  /\ outcome' = "rejected: bootstrap error"
  /\ UNCHANGED <<navVars, injected, serverContext, hostAttr, appId, hydration, callbacks,
                 unstable, asyncPromises, pending, warnings, trace>>

\* bootstrapPromise.then(moduleOrApplicationRef => { ... }) up to the
\* subscription to isStable
OnBootstrapped ==
  /\ renderPc = "bootstrapping"
  /\ IF HasNoTransitionId(appId)
     THEN /\ renderPc' = "done"
          /\ outcome' = "rejected: requires withServerTransition"
          /\ UNCHANGED serverContext
     ELSE /\ serverContext' = sanitizeServerContext(GetServerContext(injected))
          /\ renderPc' = "waitingStable"
          /\ UNCHANGED outcome
  /\ UNCHANGED <<navVars, injected, hostAttr, appId, hydration, callbacks,
                 unstable, asyncPromises, pending, warnings, trace>>

\* isStable emits false: first(isStable => isStable) keeps waiting
IsStableFalse ==
  /\ renderPc = "waitingStable"
  /\ unstable < MaxUnstable
  /\ unstable' = unstable + 1
  /\ UNCHANGED <<navVars, renderPc, injected, serverContext, hostAttr, appId, hydration,
                 callbacks, asyncPromises, pending, warnings, trace, outcome>>

\* isStable emits true: the promise of toPromise() is fulfilled
IsStableTrue ==
  /\ renderPc = "waitingStable"
  /\ renderPc' = "stable"
  /\ trace' = Append(trace, Op("stable", 0))
  /\ UNCHANGED <<navVars, injected, serverContext, hostAttr, appId, hydration, callbacks,
                 unstable, asyncPromises, pending, warnings, outcome>>

\* isStable completes without a true value: first() fails with EmptyError
IsStableCompletes ==
  /\ renderPc = "waitingStable"
  /\ renderPc' = "done"
  /\ outcome' = "rejected: EmptyError"
  /\ UNCHANGED <<navVars, injected, serverContext, hostAttr, appId, hydration, callbacks,
                 unstable, asyncPromises, pending, warnings, trace>>

\* .then(() => { ... }) after stability: the attribute, the hydration
\* annotation, the callbacks, then complete() at once or after Promise.all
OnStable ==
  /\ renderPc = "stable"
  /\ hostAttr' = serverContext
  /\ LET t1 == Append(trace, Op("appendServerContextInfo", 0))
         t2 == IF hydration THEN Append(t1, Op("annotateForHydration", 0)) ELSE t1
         loop == RunCallbacks(CallbackList(callbacks), 1,
                              [trace |-> t2, promises |-> <<>>, warnings |-> 0, thrown |-> FALSE])
     IN /\ warnings' = warnings + loop.warnings
        /\ asyncPromises' = loop.promises
        /\ IF loop.thrown
           THEN /\ trace' = loop.trace
                /\ pending' = {}
                /\ renderPc' = "done"
                /\ outcome' = "rejected: callback error"
           ELSE IF NothingToAwait(loop.promises)
                THEN /\ trace' = Complete(loop.trace)
                     /\ pending' = {}
                     /\ renderPc' = "done"
                     /\ outcome' = "resolved"
                ELSE /\ trace' = loop.trace
                     /\ pending' = RangeSet(loop.promises)
                     /\ renderPc' = "awaiting"
                     /\ UNCHANGED outcome
  /\ UNCHANGED <<navVars, injected, serverContext, appId, hydration, callbacks, unstable>>

\* the promise returned by callback k settles; its .catch logs a rejection
SettlePromise(k) ==
  /\ renderPc = "awaiting"
  /\ k \in pending
  /\ pending' = pending \ {k}
  /\ LET kind == CallbackList(callbacks)[k]
     IN /\ trace' = Append(trace, Op(IF kind = "rejects" THEN "promiseRejected" ELSE "promiseFulfilled", k))
        /\ IF SettledAs(kind) = "rejected"
           THEN /\ renderPc' = "done"
                /\ outcome' = "rejected: callback error"
                /\ UNCHANGED warnings
           ELSE /\ warnings' = warnings + (IF kind = "rejects" THEN 1 ELSE 0)
                /\ UNCHANGED <<renderPc, outcome>>
  /\ UNCHANGED <<navVars, injected, serverContext, hostAttr, appId, hydration, callbacks,
                 unstable, asyncPromises>>

\* Promise.all(...).then(complete)
OnAllSettled ==
  /\ renderPc = "awaiting"
  /\ pending = {}
  /\ trace' = Complete(trace)
  /\ renderPc' = "done"
  /\ outcome' = "resolved"
  /\ UNCHANGED <<navVars, injected, serverContext, hostAttr, appId, hydration, callbacks,
                 unstable, asyncPromises, pending, warnings>>

FlowNext ==
  \/ BootstrapRejects
  \/ OnBootstrapped
  \/ IsStableFalse
  \/ IsStableTrue
  \/ IsStableCompletes
  \/ OnStable
  \/ \E k \in pending : SettlePromise(k)
  \/ OnAllSettled

SpecRenderFlow == FlowInit /\ [][FlowNext]_vars

\* ------------------------------------------------------------------------
\* C10: sanitizeServerContext returns, for every input string, a non-empty
\* string made only of a-z, A-Z, 0-9 and '-': the input with every other
\* character removed, or 'other' when nothing remains; applying it twice
\* gives the same result as applying it once.
\* ------------------------------------------------------------------------
LowerCase == 97..122

UpperCase == 65..90

Digits == 48..57

Hyphen == 45

SpecAllowed == LowerCase \cup UpperCase \cup Digits \cup {Hyphen}

\* s with the characters outside SpecAllowed removed
RECURSIVE Stripped(_)
Stripped(s) ==
  IF s = <<>> THEN <<>>
  ELSE IF Head(s) \in SpecAllowed THEN <<Head(s)>> \o Stripped(Tail(s))
       ELSE Stripped(Tail(s))

\* the string _render hands to sanitizeServerContext
SanitizerInput == IF injected.provided THEN injected.value ELSE <<111, 116, 104, 101, 114>>

C10_SanitizedContext ==
  renderPc \in {"contextRead", "annotated"} =>
    /\ Len(serverContext) > 0
    /\ \A k \in 1..Len(serverContext) : serverContext[k] \in SpecAllowed
    /\ serverContext = (IF Stripped(SanitizerInput) # <<>>
                        THEN Stripped(SanitizerInput)
                        ELSE <<111, 116, 104, 101, 114>>)
    /\ sanitizeServerContext(serverContext) = serverContext
    /\ (renderPc = "annotated" => hostAttr = serverContext)

\* an input that loses a character and keeps a hyphen and another character
C10_Witness ==
  /\ renderPc = "annotated"
  /\ injected.provided
  /\ Len(injected.value) = 3
  /\ Len(serverContext) = 2
  /\ \E k \in 1..2 : serverContext[k] = Hyphen
  /\ hostAttr = serverContext

\* ------------------------------------------------------------------------
\* The calls of _render, read off the trace
\* ------------------------------------------------------------------------
Positions(name) == {p \in 1..Len(trace) : trace[p].op = name}

NumCallbacks == IF callbacks[1] = "null" THEN 0 ELSE Len(callbacks[2])

CallbackBehaviour(k) == callbacks[2][k]

PromiseCallbacks == {k \in 1..NumCallbacks : CallbackBehaviour(k) \in {"resolves", "rejects"}}

FailingCallbacks == {k \in 1..NumCallbacks : CallbackBehaviour(k) \in {"throw", "rejects"}}

CalledBefore(k, p) == \E q \in 1..(p - 1) : trace[q] = [op |-> "callback", i |-> k]

SettledBefore(k, p) ==
  \E q \in 1..(p - 1) : trace[q].i = k /\ trace[q].op \in {"promiseFulfilled", "promiseRejected"}

C12_CallbackFailuresIgnored ==
  /\ Positions("appendServerContextInfo") # {} =>
       /\ \A k \in 1..NumCallbacks : Cardinality({p \in Positions("callback") : trace[p].i = k}) = 1
       /\ outcome \in {"none", "resolved"}
       /\ renderPc \in {"awaiting", "done"}
       /\ renderPc = "done" =>
            /\ outcome = "resolved"
            /\ Positions("renderToString") # {}
            /\ Positions("destroy") # {}
            /\ warnings = Cardinality(FailingCallbacks)
  /\ renderPc = "awaiting" =>
       /\ pending # {} => \A k \in pending : ENABLED SettlePromise(k)
       /\ pending = {} => ENABLED OnAllSettled

\* the first callback threw, the second returned a promise that was rejected,
\* and the render resolved
C12_Witness ==
  /\ NumCallbacks = 2
  /\ CallbackBehaviour(1) = "throw"
  /\ CallbackBehaviour(2) = "rejects"
  /\ outcome = "resolved"
  /\ warnings = 2

\* ------------------------------------------------------------------------
\* C14: when the bootstrapped injector yields no APP_ID (null or empty),
\* _render rejects with an error and on that path runs no
\* BEFORE_APP_SERIALIZED callback and never calls renderToString() or
\* destroy().
\* ------------------------------------------------------------------------
C14_NoAppIdRejects ==
  appId \in {"null", "empty"} =>
    /\ Positions("callback") = {}
    /\ Positions("renderToString") = {}
    /\ Positions("destroy") = {}
    /\ renderPc \in {"bootstrapping", "done"}
    /\ renderPc = "done" => outcome \in {"rejected: requires withServerTransition",
                                         "rejected: bootstrap error"}

C14_BootstrappedStep ==
  (renderPc = "bootstrapping" /\ appId \in {"null", "empty"} /\ outcome' # "rejected: bootstrap error")
  => (outcome' = "rejected: requires withServerTransition" \/ UNCHANGED vars)

C14_MissingAppId == [](C14_NoAppIdRejects) /\ [][C14_BootstrappedStep]_vars

\* an empty APP_ID with callbacks registered: rejected, nothing was called
C14_Witness ==
  /\ appId = "empty"
  /\ NumCallbacks >= 1
  /\ outcome = "rejected: requires withServerTransition"
  /\ trace = <<>>

\* ------------------------------------------------------------------------
\* C13: if the action callback synchronously makes the event source emit
\* another terminal event while the first terminal event is still being
\* delivered, before the watcher has unsubscribed, the callback is still
\* invoked only once for that registration.
\* ------------------------------------------------------------------------
C13_OnceUnderReentrancy ==
  \A i \in WatcherIds :
    /\ watchers[i].calls <= 1
    /\ watchers[i].action = "emit" => (watchers[i].calls = 1 /\ watchers[i].closed)

\* the callback emitted a second terminal event from inside: the watcher
\* received it while still subscribed, and take(1) dropped it
C13_Witness ==
  \E i \in WatcherIds :
    /\ watchers[i].action = "emit"
    /\ watchers[i].delivered = 2
    /\ watchers[i].results \in {<<"COMPLETE", "FAILED">>, <<"FAILED", "COMPLETE">>}
    /\ watchers[i].seen = 2
    /\ watchers[i].calls = 1

====
